---- MODULE Spec2Model ----
(***************************************************************************)
(* A model of qiskit_rng (src/qiskit_rng/utils.py): the bit codec, the     *)
(* Bell/Mermin statistics, the entropy estimate, the modulus search and    *)
(* the extractor sizing.                                                   *)
(*                                                                         *)
(* Every function of utils.py is a pure function.  A call is modelled by   *)
(* a state holding the name of the function (fn), its arguments (args),    *)
(* the position of the call (pc), the locals of a loop that is modelled    *)
(* step by step (locals) and the outcome (ret).  An outcome is either      *)
(*   [kind |-> "ok", value |-> v]         the function returned v, or      *)
(*   [kind |-> "error", error |-> name]    the function raised `name`.      *)
(* Python floats are modelled by exact rationals <<numerator,denominator>> *)
(* with a positive denominator; where the float range decides the outcome  *)
(* (an OverflowError of pow) the range is modelled explicitly.             *)
(*                                                                         *)
(* Generator (src/qiskit_rng/generator.py) and GeneratorJob                *)
(* (src/qiskit_rng/generator_job.py) act on the world around them: files   *)
(* is the working directory, a set of [name, data] records with distinct   *)
(* names, and calls is the log of the calls made to the collaborators (the *)
(* WSR generator, the backend, the job manager, the provider, the file     *)
(* system).  The functions of utils.py leave both alone.                   *)
(***************************************************************************)
EXTENDS Integers, Sequences, FiniteSets, TLC

VARIABLES fn, args, pc, locals, ret, files, calls

vars == <<fn, args, pc, locals, ret, files, calls>>

(***************************************************************************)
(* Bounds of the model.                                                    *)
(***************************************************************************)
\* longest bit list given to the codec (more than one byte, not a multiple of 8)
MaxBits == 10
\* longest sequence of labels (wsr) and of outcomes (raw_bits) given to bell_value
MaxShots == 2
\* na_set is called with num_bits in -MaxBelowZero..MaxNumBits
MaxNumBits == 50
MaxBelowZero == 4
\* Bell values and adjusted Bell values are k / 2^BtBits, k in -MaxBtBelowZero..MaxBtNum
\* (binary fractions, on which the float arithmetic of the code is exact)
BtBits == 6
MaxBtNum == 24
MaxBtBelowZero == 8
\* h_mins is called with rate_sv in 0..MaxRateSv and num_bits in 0..MaxEntropyBits
MaxRateSv == 2
MaxEntropyBits == 2
\* the sizing functions take rate_bt = k / 2^RateBits, k in 0..2^RateBits, and
\* rate_sv in (0, 1]: k / 2^RateBits, k in 1..2^RateBits (binary fractions)
RateBits == 2
\* dodis_output_size: num_bits in 0..MaxSizerBits, epsilon_dodis 0 or 2^-k, k in 0..MaxEpsilonBits
MaxSizerBits == 12
MaxEpsilonBits == 3
\* hayashi_parameters: input_size k * InputSizeStep, k in 0..MaxInputSteps; c_max, c_penalty in 0..MaxC
InputSizeStep == 512
MaxInputSteps == 3
MaxC == 4
\* sample is called with num_raw_bits in 1..MaxRawBits on a backend with
\* max_shots in 1..MaxBackendShots and max_experiments in 1..MaxExperiments
MaxRawBits == 7
MaxBackendShots == 2
MaxExperiments == 2
\* the random bits of generate_wsr repeat a block of RandomBlock bits
RandomBlock == 4
\* the four characters taken from a uuid4 are a value of 0..MaxUuid
MaxUuid == 1
\* a GeneratorJob has 1..MaxJobCircuits circuits and 1..MaxJobShots shots, and
\* block_until_ready is called at most MaxReadyCalls times in all
MaxJobCircuits == 2
MaxJobShots == 2
MaxReadyCalls == 2
\* the number of samplings that run _save_local concurrently
NumSamplings == 2

(***************************************************************************)
(* Outcomes.                                                               *)
(***************************************************************************)
NoValue == [kind |-> "none"]
NoLocals == [none |-> TRUE]
Ok(v) == [kind |-> "ok", value |-> v]
Raise(e) == [kind |-> "error", error |-> e]
IsOk(r) == r.kind = "ok"
IsError(r) == r.kind = "error"

\* The state before a call of function f on one of the argument records of S.
InitCall(f, S) ==
    /\ fn = f
    /\ args \in S
    /\ pc = "call"
    /\ locals = NoLocals
    /\ ret = NoValue
    /\ files = {}
    /\ calls = <<>>

\* A whole call of function f: from "call" to "done" with outcome r.
Return(f, r) ==
    /\ fn = f
    /\ pc = "call"
    /\ pc' = "done"
    /\ ret' = r
    /\ UNCHANGED <<fn, args, locals, files, calls>>

(***************************************************************************)
(* Integer helpers for Python's operators on ints.                         *)
(***************************************************************************)
RECURSIVE Pow2(_)
Pow2(k) == IF k = 0 THEN 1 ELSE 2 * Pow2(k - 1)

\* x >> k and x << k
Shr(x, k) == x \div Pow2(k)
Shl(x, k) == x * Pow2(k)

\* x & y and x | y on non-negative ints, bit by bit
RECURSIVE BitAnd(_, _)
BitAnd(x, y) ==
    IF x = 0 \/ y = 0 THEN 0
    ELSE (IF x % 2 = 1 /\ y % 2 = 1 THEN 1 ELSE 0) + 2 * BitAnd(x \div 2, y \div 2)

RECURSIVE BitOr(_, _)
BitOr(x, y) ==
    IF x = 0 THEN y
    ELSE IF y = 0 THEN x
    ELSE (IF x % 2 = 1 \/ y % 2 = 1 THEN 1 ELSE 0) + 2 * BitOr(x \div 2, y \div 2)

\* all sequences over S of length 0..n
SeqsUpTo(S, n) == UNION {[1..k -> S] : k \in 0..n}

(***************************************************************************)
(* BitCodec: bitarray_to_bytes and bytes_to_bitarray.                      *)
(* Python indexes from 0, TLA+ sequences from 1: bitarray[i] is b[i + 1].  *)
(***************************************************************************)
\* int_array[i >> 3] |= bitarray[i] << (i & 7), for one i
PackBitMsbFirst(int_array, bitarray, i) ==
    [int_array EXCEPT ![Shr(i, 3) + 1] = BitOr(@, Shl(bitarray[i + 1], 7 - BitAnd(i, 7)))]

\* the loop body with "=" in place of "|=": the byte keeps the last bit only
PackBitAssign(int_array, bitarray, i) ==
    [int_array EXCEPT ![Shr(i, 3) + 1] = Shl(bitarray[i + 1], BitAnd(i, 7))]

PackBit(int_array, bitarray, i) ==
    [int_array EXCEPT ![Shr(i, 3) + 1] = BitOr(@, Shl(bitarray[i + 1], BitAnd(i, 7)))]

\* the loop "for i in range(n_bits)", from i on
RECURSIVE PackFrom(_, _, _)
PackFrom(int_array, bitarray, i) ==
    IF i >= Len(bitarray) THEN int_array
    ELSE PackFrom(PackBit(int_array, bitarray, i), bitarray, i + 1)

bitarray_to_bytes(bitarray) ==
    LET n_bits == Len(bitarray)
        n_bytes == Shr(n_bits + 7, 3)
        int_array == [k \in 1..n_bytes |-> 0]
        packed == PackFrom(int_array, bitarray, 0)
    IN  \* bytes(int_array) raises ValueError unless every element is in range(256)
        IF \A k \in 1..n_bytes : packed[k] \in 0..255
        THEN Ok(packed)
        ELSE Raise("ValueError")

bytes_to_bitarray(the_bytes, num_bits) ==
    IF \E i \in 0..(num_bits - 1) : Shr(i, 3) + 1 > Len(the_bytes)
    THEN Raise("IndexError")
    ELSE Ok([k \in 1..num_bits |->
                BitAnd(Shr(the_bytes[Shr(k - 1, 3) + 1], BitAnd(k - 1, 7)), 1)])

BitLists == SeqsUpTo({0, 1}, MaxBits)

InitCodec == InitCall("bitarray_to_bytes", {[bitarray |-> b] : b \in BitLists})

\* the_bytes = bitarray_to_bytes(bitarray)
Encode ==
    /\ fn = "bitarray_to_bytes"
    /\ pc = "call"
    /\ pc' = "encoded"
    /\ locals' = [the_bytes |-> bitarray_to_bytes(args.bitarray)]
    /\ UNCHANGED <<fn, args, ret, files, calls>>

\* bytes_to_bitarray(the_bytes, len(bitarray))
Decode ==
    /\ fn = "bitarray_to_bytes"
    /\ pc = "encoded"
    /\ IsOk(locals.the_bytes)
    /\ pc' = "done"
    /\ ret' = bytes_to_bitarray(locals.the_bytes.value, Len(args.bitarray))
    /\ UNCHANGED <<fn, args, locals, files, calls>>

NextCodec == Encode \/ Decode

SpecCodec == InitCodec /\ [][NextCodec]_vars

\* C1: for every bit list b (the empty list and lengths that are not a multiple
\* of 8 included), bytes_to_bitarray(bitarray_to_bytes(b), len(b)) equals b.
C1_RoundTrip ==
    (fn = "bitarray_to_bytes" /\ pc = "done") => ret = Ok(args.bitarray)

\* a list of more than 8 bits, not a multiple of 8, with a 1 in the second
\* byte, has been encoded and decoded
C1_Witness ==
    /\ fn = "bitarray_to_bytes"
    /\ pc = "done"
    /\ Len(args.bitarray) = 10
    /\ args.bitarray[10] = 1
    /\ args.bitarray[1] = 0
    /\ IsOk(ret)

\* bitarray_to_bytes has returned: its bytes are in locals.the_bytes
Encoded == fn = "bitarray_to_bytes" /\ pc \in {"encoded", "done"}

\* bit number position (0 the least significant) of a byte
BitOf(byte, position) == (byte \div (2 ^ position)) % 2

\* C12: bitarray_to_bytes(b) has exactly ceil(len(b)/8) bytes, bit i of b is in
\* byte i >> 3 at bit position i & 7 (least significant bit first), and every
\* bit position at or beyond len(b) is 0; [1,0,1,1,0,0,0,0] packs to 0x0D.
C12_Layout ==
    Encoded =>
        LET b == args.bitarray
            n == Len(b)
        IN  /\ IsOk(locals.the_bytes)
            /\ 8 * Len(locals.the_bytes.value) >= n
            /\ 8 * (Len(locals.the_bytes.value) - 1) < n
            /\ \A k \in 1..Len(locals.the_bytes.value) :
                   /\ locals.the_bytes.value[k] \in 0..255
                   /\ \A position \in 0..7 :
                          BitOf(locals.the_bytes.value[k], position) =
                              IF 8 * (k - 1) + position < n
                              THEN b[8 * (k - 1) + position + 1]
                              ELSE 0
            /\ b = <<1, 0, 1, 1, 0, 0, 0, 0>> => locals.the_bytes.value = <<13>>

\* a list of 10 bits with ones in both bytes has been packed into 2 bytes, the
\* second one padded with zeros
C12_Witness ==
    /\ Encoded
    /\ args.bitarray = <<1, 0, 1, 1, 0, 0, 0, 0, 1, 1>>
    /\ locals.the_bytes = Ok(<<13, 3>>)

(***************************************************************************)
(* Rationals <<n, d>>, d > 0, in lowest terms, for Python's floats.        *)
(***************************************************************************)
RECURSIVE GCD(_, _)
GCD(a, b) == IF b = 0 THEN a ELSE GCD(b, a % b)
Abs(x) == IF x < 0 THEN 0 - x ELSE x
\* n / d in lowest terms, d > 0
Rat(n, d) == LET g == GCD(Abs(n), d) IN <<n \div g, d \div g>>
RInt(k) == <<k, 1>>
\* sums over the least common denominator
LCM(a, b) == (a \div GCD(a, b)) * b
RAdd(a, b) ==
    LET l == LCM(a[2], b[2]) IN Rat(a[1] * (l \div a[2]) + b[1] * (l \div b[2]), l)
RSub(a, b) ==
    LET l == LCM(a[2], b[2]) IN Rat(a[1] * (l \div a[2]) - b[1] * (l \div b[2]), l)
RMul(a, b) == Rat(a[1] * b[1], a[2] * b[2])
REq(a, b) == a[1] * b[2] = b[1] * a[2]
RLt(a, b) == a[1] * b[2] < b[1] * a[2]
RLe(a, b) == a[1] * b[2] <= b[1] * a[2]
\* a / b for b # 0, the denominator kept positive
RDiv(a, b) ==
    IF b[1] > 0 THEN Rat(a[1] * b[2], a[2] * b[1])
    ELSE Rat(0 - a[1] * b[2], 0 - a[2] * b[1])

\* sum(list)
RECURSIVE Sum(_)
Sum(s) == IF Len(s) = 0 THEN 0 ELSE Head(s) + Sum(Tail(s))

(***************************************************************************)
(* StatisticsEngine: bell_value.                                           *)
(***************************************************************************)
\* the loop body with the parity test of the second branch inverted
LosingStepSameParity(wsr_sum, raw_bits_sum) ==
    IF wsr_sum = 1 /\ raw_bits_sum % 2 = 1 THEN 1
    ELSE IF wsr_sum = 3 /\ raw_bits_sum % 2 = 1 THEN 1
    ELSE 0

\* what one index adds to losing_prob: the if / elif of the loop body
LosingStep(wsr_sum, raw_bits_sum) ==
    IF wsr_sum = 1 /\ raw_bits_sum % 2 = 1 THEN 1
    ELSE IF wsr_sum = 3 /\ raw_bits_sum % 2 = 0 THEN 1
    ELSE 0

\* the loop "for i in range(len(wsr))", from i on, with losing_prob so far
RECURSIVE LosingFrom(_, _, _, _)
LosingFrom(wsr, raw_bits, i, losing_prob) ==
    IF i >= Len(wsr) THEN losing_prob
    ELSE LosingFrom(wsr, raw_bits, i + 1,
                    losing_prob + LosingStep(Sum(wsr[i + 1]), Sum(raw_bits[i + 1])))

\* the correlator with the sign of the formula inverted
CorrelatorFlipped(losing_prob) == RSub(RMul(RInt(16), losing_prob), RInt(4))

\* correlator = 4-16*losing_prob
Correlator(losing_prob) == RSub(RInt(4), RMul(RInt(16), losing_prob))

bell_value(wsr, raw_bits) ==
    IF Len(raw_bits) < Len(wsr)
    THEN Raise("IndexError")            \* raw_bits[i] inside the loop
    ELSE IF Len(wsr) = 0
    THEN Raise("ZeroDivisionError")     \* losing_prob / len(wsr)
    ELSE LET losing_prob == Rat(LosingFrom(wsr, raw_bits, 0, 0), Len(wsr))
         IN  Ok([losing_prob |-> losing_prob,
                 winning_prob |-> RSub(RInt(1), losing_prob),
                 correlator |-> Correlator(losing_prob)])

\* the 3-bit vectors: basis labels and measurement outcomes
Vec3 == [1..3 -> {0, 1}]

InitBell ==
    InitCall("bell_value",
             {[wsr |-> w, raw_bits |-> r] :
                 w \in SeqsUpTo(Vec3, MaxShots), r \in SeqsUpTo(Vec3, MaxShots)})

BellValue == Return("bell_value", bell_value(args.wsr, args.raw_bits))

NextBell == BellValue

SpecBell == InitBell /\ [][NextBell]_vars

\* the call of bell_value has ended
BellDone == fn = "bell_value" /\ pc = "done"

\* the input the statistics are specified for: equal length, not empty
BellValidInput == Len(args.wsr) = Len(args.raw_bits) /\ Len(args.wsr) > 0

\* the indices that lose, as the claim counts them
LosingIndices ==
    {i \in 1..Len(args.wsr) :
        \/ Sum(args.wsr[i]) = 1 /\ Sum(args.raw_bits[i]) % 2 = 1
        \/ Sum(args.wsr[i]) = 3 /\ Sum(args.raw_bits[i]) % 2 = 0}

\* C2: for equal-length, non-empty wsr and raw_bits, losing_probability is
\* L / len(wsr), L the number of indices with (sum(wsr[i]) = 1 and sum(raw_bits[i])
\* odd) or (sum(wsr[i]) = 3 and sum(raw_bits[i]) even); indices with sum(wsr[i])
\* in {0, 2} add nothing to L and still count in the denominator.
C2_LosingProbability ==
    (BellDone /\ BellValidInput) =>
        /\ IsOk(ret)
        /\ ret.value.losing_prob = Rat(Cardinality(LosingIndices), Len(args.wsr))

\* two shots: one loses with label sum 3 and an even outcome, the other has
\* label sum 2 and counts in the denominator only
C2_Witness ==
    /\ BellDone
    /\ Len(args.wsr) = 2 /\ Len(args.raw_bits) = 2
    /\ Sum(args.wsr[1]) = 3 /\ Sum(args.raw_bits[1]) = 2
    /\ Sum(args.wsr[2]) = 2 /\ Sum(args.raw_bits[2]) = 1
    /\ IsOk(ret)
    /\ ret.value.losing_prob = Rat(1, 2)

\* C3 as stated: for non-empty, equal-length input the correlator lies in [-4, 4].
C3_Original ==
    (BellDone /\ BellValidInput) =>
        /\ IsOk(ret)
        /\ RLe(RInt(-4), ret.value.correlator)
        /\ RLe(ret.value.correlator, RInt(4))

\* C3 (amended): for non-empty, equal-length input the correlator lies in
\* [-12, 4]; it lies in [-4, 4] exactly when losing_probability <= 1/2.
C3_CorrelatorRange ==
    (BellDone /\ BellValidInput) =>
        /\ IsOk(ret)
        /\ RLe(RInt(-12), ret.value.correlator)
        /\ RLe(ret.value.correlator, RInt(4))
        /\ RLe(RInt(-4), ret.value.correlator) <=> RLe(ret.value.losing_prob, Rat(1, 2))

\* every shot loses: losing_probability is 1 and the correlator is -12
C3_Witness ==
    /\ BellDone
    /\ BellValidInput
    /\ IsOk(ret)
    /\ REq(ret.value.losing_prob, RInt(1))
    /\ REq(ret.value.correlator, RInt(-12))

\* C4: bell_value fails with an explicit input-size error (any raised error other
\* than a division by zero is counted as one here) whenever wsr and raw_bits
\* differ in length or are empty; it returns no statistics for such input.
C4_InputSizeError ==
    (BellDone /\ ~BellValidInput) =>
        /\ IsError(ret)
        /\ ret.error # "ZeroDivisionError"

(***************************************************************************)
(* ModulusSelector: prime_check, prime_factors and na_set.                 *)
(***************************************************************************)
\* round(sqrt(num)) for num >= 0: the integer nearest to the square root (the
\* square root of an integer is never half-way between two integers)
RoundSqrt(num) ==
    IF num = 0 THEN 0
    ELSE CHOOSE r \in 1..num : r * r - r < num /\ num <= r * r + r

\* prime_check with the last trial divisor left out: range(2, round(sqrt(num)))
prime_check_short(num) ==
    IF num < 0 THEN Raise("ValueError")
    ELSE Ok(\A i \in 2..(RoundSqrt(num) - 1) : num % i # 0)

\* prime_check with one trial divisor too many: range(2, round(sqrt(num)) + 2)
prime_check_long(num) ==
    IF num < 0 THEN Raise("ValueError")
    ELSE Ok(\A i \in 2..(RoundSqrt(num) + 1) : num % i # 0)

\* trial division by every i in range(2, round(sqrt(num)) + 1)
prime_check(num) ==
    IF num < 0 THEN Raise("ValueError")     \* sqrt: math domain error
    ELSE Ok(\A i \in 2..RoundSqrt(num) : num % i # 0)

\* prime_factors, the while loop: trial division from i on
RECURSIVE FactorsFrom(_, _, _)
FactorsFrom(num, i, factors) ==
    IF i <= RoundSqrt(num) + 1
    THEN IF num % i = 0
         THEN FactorsFrom(num \div i, i, Append(factors, i))
         ELSE FactorsFrom(num, i + 1, factors)
    ELSE IF num # 1 THEN Append(factors, num) ELSE factors

\* prime_factors, the for loop: the distinct factors and their powers
RECURSIVE GroupFrom(_, _, _, _)
GroupFrom(factors, i, factors2, powers) ==
    IF i >= Len(factors) THEN <<factors2, powers>>
    ELSE IF factors[i + 1] = factors[i]
         THEN GroupFrom(factors, i + 1, factors2,
                        [powers EXCEPT ![Len(powers)] = @ + 1])
         ELSE GroupFrom(factors, i + 1, Append(factors2, factors[i + 1]),
                        Append(powers, 1))

prime_factors(num, use_power) ==
    IF num < 0 THEN Raise("ValueError")     \* sqrt: math domain error
    ELSE LET factors == FactorsFrom(num, 2, <<>>)
         IN  IF Len(factors) = 0
             THEN Raise("AttributeError")   \* factors is still a list: no .size
             ELSE IF ~use_power THEN Ok(factors)
             ELSE Ok(GroupFrom(factors, 1, <<factors[1]>>, <<1>>))

\* pow(base, exponent, modulus) for exponent >= 0 and modulus >= 1
RECURSIVE PowMod(_, _, _)
PowMod(base, exponent, modulus) ==
    IF exponent = 0 THEN 1 % modulus
    ELSE (base * PowMod(base, exponent - 1, modulus)) % modulus

\* the test with int() of a nan taken as 0 instead of raising
OrderTestNanAsZero(num_bits, prime) ==
    IF prime = 0 THEN Ok(PowMod(2, 0, num_bits + 1))
    ELSE Ok(PowMod(2, num_bits \div prime, num_bits + 1))

\* test = pow(2, int(num_bits / primes[i]), num_bits + 1)
OrderTest(num_bits, prime) ==
    IF prime = 0 THEN Raise("ValueError")   \* int(nan): num_bits / 0.0 is nan
    ELSE Ok(PowMod(2, num_bits \div prime, num_bits + 1))

\* the for loop of na_set with "stop" decided by the last test alone
OrderFailsLastWins(num_bits, primes) ==
    Len(primes) > 0 /\ OrderTest(num_bits, primes[Len(primes)]) = Ok(1)

\* the for loop of na_set: some test is 1, so stop is reset to False
OrderFails(num_bits, primes) ==
    \E i \in 1..Len(primes) : OrderTest(num_bits, primes[i]) = Ok(1)

InitNaSet ==
    InitCall("na_set", {[num_bits |-> n] : n \in (0 - MaxBelowZero)..MaxNumBits})

\* if num_bits % 2 != 0: num_bits = num_bits - 1; stop = False
NaSetEnter ==
    /\ fn = "na_set"
    /\ pc = "call"
    /\ pc' = "outer"
    /\ locals' = [num_bits |-> IF args.num_bits % 2 # 0
                               THEN args.num_bits - 1 ELSE args.num_bits,
                  stop |-> FALSE]
    /\ UNCHANGED <<fn, args, ret, files, calls>>

\* while not stop: stop = True ...; after the loop: return num_bits
NaSetOuter ==
    /\ fn = "na_set"
    /\ pc = "outer"
    /\ IF locals.stop
       THEN /\ pc' = "done"
            /\ ret' = Ok(locals.num_bits)
            /\ UNCHANGED locals
       ELSE /\ pc' = "inner"
            /\ locals' = [locals EXCEPT !.stop = TRUE]
            /\ UNCHANGED ret
    /\ UNCHANGED <<fn, args, files, calls>>

\* while not prime_check(num_bits + 1): num_bits = num_bits - 2
NaSetInner ==
    /\ fn = "na_set"
    /\ pc = "inner"
    /\ LET is_prime == prime_check(locals.num_bits + 1)
       IN  IF IsError(is_prime)
           THEN /\ pc' = "done"
                /\ ret' = is_prime
                /\ UNCHANGED locals
           ELSE IF ~is_prime.value
           THEN /\ pc' = "inner"
                /\ locals' = [locals EXCEPT !.num_bits = @ - 2]
                /\ UNCHANGED ret
           ELSE /\ pc' = "order"
                /\ UNCHANGED <<locals, ret>>
    /\ UNCHANGED <<fn, args, files, calls>>

\* output = prime_factors(num_bits, True); the for loop over the primes;
\* if not stop: num_bits = num_bits - 2
NaSetOrder ==
    /\ fn = "na_set"
    /\ pc = "order"
    /\ LET output == prime_factors(locals.num_bits, TRUE)
       IN  IF IsError(output)
           THEN /\ pc' = "done"
                /\ ret' = output
                /\ UNCHANGED locals
           ELSE LET primes == output.value[1]
                    prime_powers == output.value[2]
                    failed == {i \in 1..Len(prime_powers) :
                                  IsError(OrderTest(locals.num_bits, primes[i]))}
                IN  IF failed # {}
                    THEN /\ pc' = "done"
                         /\ ret' = OrderTest(locals.num_bits,
                                             primes[CHOOSE i \in failed :
                                                       \A j \in failed : i <= j])
                         /\ UNCHANGED locals
                    ELSE IF OrderFails(locals.num_bits, primes)
                    THEN /\ pc' = "outer"
                         /\ locals' = [num_bits |-> locals.num_bits - 2,
                                       stop |-> FALSE]
                         /\ UNCHANGED ret
                    ELSE /\ pc' = "outer"
                         /\ UNCHANGED <<locals, ret>>
    /\ UNCHANGED <<fn, args, files, calls>>

NextNaSet == NaSetEnter \/ NaSetOuter \/ NaSetInner \/ NaSetOrder

SpecNaSet == InitNaSet /\ [][NextNaSet]_vars

\* the call of na_set has returned a value
NaSetReturned == fn = "na_set" /\ pc = "done" /\ IsOk(ret)

\* n is a prime number: at least 2, with no divisor between 1 and itself
IsPrime(n) == n >= 2 /\ \A d \in 2..(n - 1) : n % d # 0

\* C5: whenever na_set returns a value m, m is even, m <= num_bits and m + 1 is
\* a prime number (so m + 1 >= 2).
C5_EvenAndPrime ==
    NaSetReturned =>
        /\ ret.value % 2 = 0
        /\ ret.value <= args.num_bits
        /\ IsPrime(ret.value + 1)

\* the search went down past composite and rejected candidates: na_set(50) = 36
C5_Witness ==
    /\ NaSetReturned
    /\ args.num_bits = 50
    /\ ret.value = 36

\* m is a modulus of the extractor: even, m + 1 prime, and 2^(m/p) mod (m + 1)
\* is not 1 for any prime factor p of m
ValidModulus(m) ==
    /\ m % 2 = 0
    /\ IsPrime(m + 1)
    /\ \A p \in 2..m : (IsPrime(p) /\ m % p = 0) => (2 ^ (m \div p)) % (m + 1) # 1

\* C6: for every num_bits in 2..50, na_set(num_bits) is the largest even
\* m <= num_bits with m + 1 prime and 2^(m/p) mod (m+1) != 1 for every prime
\* factor p of m: the decreasing search skips no such candidate.
C6_BruteForce ==
    (fn = "na_set" /\ pc = "done" /\ args.num_bits \in 2..MaxNumBits) =>
        /\ IsOk(ret)
        /\ ret.value \in 2..args.num_bits
        /\ ValidModulus(ret.value)
        /\ \A m \in 2..args.num_bits : ValidModulus(m) => m <= ret.value

\* na_set(45) = 36: 42 has 43 prime but fails the order test for p = 3 only,
\* and 40 has 41 prime but fails the order test for p = 2
C6_Witness ==
    /\ NaSetReturned
    /\ args.num_bits = 45
    /\ ret.value = 36
    /\ IsPrime(43) /\ (2 ^ 21) % 43 # 1 /\ (2 ^ 14) % 43 = 1

\* A call runs to its end: a step of the loops that can be taken is taken.
SpecNaSetFair == InitNaSet /\ [][NextNaSet]_vars /\ WF_vars(NextNaSet)

\* na_set is called with a start value below 2
NaSetBelowTwo == fn = "na_set" /\ args.num_bits < 2

\* the call of na_set is inside its loops
NaSetRunning == fn = "na_set" /\ pc \in {"outer", "inner", "order"}

C19_TerminatesAboveTwo ==
    /\ []((fn = "na_set" /\ args.num_bits >= 2) =>
            /\ NaSetRunning => locals.num_bits \in 2..args.num_bits
            /\ pc = "done" => (IsOk(ret) /\ ret.value \in 2..args.num_bits))
    /\ ((fn = "na_set" /\ args.num_bits >= 2) => <>(pc = "done"))

\* na_set(3) has returned 2: the search stopped at the lowest candidate
C19_Witness ==
    /\ NaSetReturned
    /\ args.num_bits = 3
    /\ ret.value = 2

(***************************************************************************)
(* EntropyEstimator: bt_adjusting, guessing_probability and h_mins.        *)
(* A guessing probability is rational + sqrt(3) * sqrt(radicand), kept as  *)
(* the record of its two exact parts.                                      *)
(***************************************************************************)
Probability(rational, radicand) == [rational |-> rational, radicand |-> radicand]

\* the branch below 1/16 with a square root that does not raise on a negative
\* argument (it yields nan, kept here as the negative radicand)
LowBranchNoCheck(bt_adjusted) ==
    LET radicand == RSub(bt_adjusted, RMul(RInt(4), RMul(bt_adjusted, bt_adjusted)))
    IN  Ok(Probability(RAdd(Rat(1, 4), RMul(RInt(2), bt_adjusted)), radicand))

\* 0.25 + 2 * bt_adjusted + sqrt(3) * sqrt((bt_adjusted - 4 * (bt_adjusted**2)))
LowBranch(bt_adjusted) ==
    LET radicand == RSub(bt_adjusted, RMul(RInt(4), RMul(bt_adjusted, bt_adjusted)))
    IN  IF RLt(radicand, RInt(0))
        THEN Raise("ValueError")            \* sqrt: math domain error
        ELSE Ok(Probability(RAdd(Rat(1, 4), RMul(RInt(2), bt_adjusted)), radicand))

\* 0.5 + 4 * bt_adjusted
MidBranch(bt_adjusted) ==
    Ok(Probability(RAdd(Rat(1, 2), RMul(RInt(4), bt_adjusted)), RInt(0)))

\* the three ifs with the test for >= 1/8 made first, so that the assignment of
\* the >= 1/16 branch is the last one
guessing_probability_saturation_first(bt_adjusted) ==
    LET after_first == IF RLe(Rat(1, 8), bt_adjusted)
                       THEN Ok(Probability(RInt(1), RInt(0)))
                       ELSE Raise("UnboundLocalError")
        after_second == IF RLe(Rat(1, 16), bt_adjusted)
                        THEN MidBranch(bt_adjusted)
                        ELSE after_first
    IN  IF RLt(bt_adjusted, Rat(1, 16))
        THEN LowBranch(bt_adjusted)
        ELSE after_second

\* the three ifs in the order of the code: each one that holds assigns
\* probability, the last assignment is returned
guessing_probability(bt_adjusted) ==
    LET after_first == IF RLe(Rat(1, 16), bt_adjusted)
                       THEN MidBranch(bt_adjusted)
                       ELSE Raise("UnboundLocalError")
        after_second == IF RLt(bt_adjusted, Rat(1, 16))
                        THEN LowBranch(bt_adjusted)
                        ELSE after_first
    IN  IF IsError(after_second) /\ RLt(bt_adjusted, Rat(1, 16))
        THEN after_second                   \* raised inside the second if
        ELSE IF RLe(Rat(1, 8), bt_adjusted)
        THEN Ok(Probability(RInt(1), RInt(0)))
        ELSE after_second

\* (bt_value + delta_finite_stat) / (8 * ((0.5 - epsilon)**3))
bt_adjusting(bt_value, epsilon, delta_finite_stat) ==
    LET base == RSub(Rat(1, 2), epsilon)
        divisor == RMul(RInt(8), RMul(base, RMul(base, base)))
    IN  IF divisor[1] = 0
        THEN Raise("ZeroDivisionError")
        ELSE Ok(RDiv(RAdd(bt_value, RInt(delta_finite_stat)), divisor))

\* 2**(-rate_sv) - 1 / 2, for an integer rate_sv >= 0
EpsilonSv(rate_sv) == RSub(Rat(1, Pow2(rate_sv)), Rat(1, 2))

\* rate_bt = (-num_bits / 2 * log2(guess)) / num_bits; log2 is kept symbolic
h_mins(bt_value, num_bits, rate_sv) ==
    LET epsilon_sv == EpsilonSv(rate_sv)
        bt_adjusted == bt_adjusting(bt_value, epsilon_sv, 0)
    IN  IF IsError(bt_adjusted) THEN bt_adjusted
        ELSE LET guess == guessing_probability(bt_adjusted.value)
             IN  IF IsError(guess) THEN guess
                 ELSE IF num_bits = 0 THEN Raise("ZeroDivisionError")
                 ELSE Ok([minus_half_log2_of |-> guess.value])

BtGrid == {Rat(k, Pow2(BtBits)) : k \in (0 - MaxBtBelowZero)..MaxBtNum}

InitEntropy ==
    \/ InitCall("guessing_probability", {[bt_adjusted |-> b] : b \in BtGrid})
    \/ InitCall("h_mins",
                {[bt_value |-> b, num_bits |-> n, rate_sv |-> r] :
                    b \in BtGrid, n \in 0..MaxEntropyBits,
                    r \in 0..MaxRateSv})

GuessingProbability ==
    Return("guessing_probability", guessing_probability(args.bt_adjusted))

HMins == Return("h_mins", h_mins(args.bt_value, args.num_bits, args.rate_sv))

NextEntropy == GuessingProbability \/ HMins

SpecEntropy == InitEntropy /\ [][NextEntropy]_vars

GuessDone == fn = "guessing_probability" /\ pc = "done"

\* C7: guessing_probability returns exactly 1 for every bt_adjusted >= 1/8 (1/8
\* included), whatever the branch for >= 1/16 computed; for
\* 1/16 <= bt_adjusted < 1/8 it returns 0.5 + 4 * bt_adjusted.
C7_Saturation ==
    GuessDone =>
        /\ RLe(Rat(1, 8), args.bt_adjusted) =>
               ret = Ok(Probability(RInt(1), RInt(0)))
        /\ (RLe(Rat(1, 16), args.bt_adjusted) /\ RLt(args.bt_adjusted, Rat(1, 8))) =>
               /\ IsOk(ret)
               /\ REq(ret.value.rational,
                      RAdd(Rat(1, 2), RMul(RInt(4), args.bt_adjusted)))
               /\ REq(ret.value.radicand, RInt(0))

\* bt_adjusted = 1/4: the branch for >= 1/16 computes 1.5 and 1 is returned
C7_Witness ==
    /\ GuessDone
    /\ REq(args.bt_adjusted, Rat(1, 4))
    /\ ~REq(MidBranch(args.bt_adjusted).value.rational, RInt(1))
    /\ ret = Ok(Probability(RInt(1), RInt(0)))

HMinsDone == fn = "h_mins" /\ pc = "done"

\* the adjusted Bell value of the call of h_mins (delta_finite_stat is 0)
AdjustedBellValue == bt_adjusting(args.bt_value, EpsilonSv(args.rate_sv), 0)

\* C8: the entropy estimate fails with a domain error (ValueError: math domain
\* error) and returns nothing whenever the adjusted Bell value is negative, which
\* for rate_sv > 0 is whenever bt_value + delta_finite_stat < 0; no returned rate
\* comes from a negative square-root argument.
C8_NegativeAdjusted ==
    HMinsDone =>
        /\ (IsOk(AdjustedBellValue) /\ RLt(AdjustedBellValue.value, RInt(0))) =>
               ret = Raise("ValueError")
        /\ (args.rate_sv > 0 /\ RLt(args.bt_value, RInt(0))) =>
               ret = Raise("ValueError")
        /\ IsOk(ret) => RLe(RInt(0), ret.value.minus_half_log2_of.radicand)

\* a negative Bell value under a valid rate_sv = 1 has been rejected
C8_Witness ==
    /\ HMinsDone
    /\ args.rate_sv = 1
    /\ args.num_bits > 0
    /\ RLt(args.bt_value, RInt(0))
    /\ RLt(AdjustedBellValue.value, RInt(0))
    /\ ret = Raise("ValueError")

(***************************************************************************)
(* ExtractorSizer: dodis_output_size and hayashi_parameters.               *)
(***************************************************************************)
\* log2(x) for x a power of two 2^k, k >= 0; ValueError for x <= 0
Log2(x) ==
    IF x[1] <= 0 THEN Raise("ValueError")   \* math domain error
    ELSE Ok(RInt(CHOOSE k \in 0..(MaxEpsilonBits + 1) : REq(x, RInt(Pow2(k)))))

\* - 8 * log2(sqrt(3) / 2) = 8 - 4 * log2(3) = 1.66014999..., as 1.66015: the
\* sums it is added to are multiples of 1 / 2^RateBits, and no multiple of
\* 1 / 2^RateBits lies between 1.66014999... and 1.66015 (a binary fraction
\* between them has a denominator above 2^28), so the floor of the sum over 5
\* is the exact one
MinusEightLog2HalfSqrt3 == Rat(33203, 20000)

\* num_bits * (rate_bt + rate_sv - 1) + 1
DodisBase(num_bits, rate_bt, rate_sv) ==
    RAdd(RMul(RInt(num_bits), RSub(RAdd(rate_bt, rate_sv), RInt(1))), RInt(1))

\* floor(a), towards minus infinity (\div rounds down for a positive divisor)
Floor(a) == a[1] \div a[2]

dodis_output_size(num_bits, rate_bt, rate_sv, epsilon_dodis, q_proof) ==
    IF epsilon_dodis[1] = 0 THEN Raise("ZeroDivisionError")     \* 1 / epsilon_dodis
    ELSE LET log == Log2(RDiv(RInt(1), epsilon_dodis))
             base == DodisBase(num_bits, rate_bt, rate_sv)
         IN  IF IsError(log) THEN log
             ELSE IF ~q_proof
             THEN Ok(Floor(RSub(base, RMul(RInt(2), log.value))))
             ELSE Ok(Floor(RMul(Rat(1, 5),
                                RAdd(RSub(base, RMul(RInt(8), log.value)),
                                     MinusEightLog2HalfSqrt3))))

\* pow(2, x) with a float x: OverflowError when 2^x is beyond the largest double
\* (x >= 1024); the value is kept as its exponent
Pow2Float(x) ==
    IF RLe(RInt(1024), x) THEN Raise("OverflowError") ELSE Ok(x)

\* hayashi_parameters with the test "c < 2" written "c < 1"
hayashi_parameters_c_below_one(input_size, rate_sv, c_max, c_penalty) ==
    LET c == c_max - c_penalty
        power == Pow2Float(RMul(Rat(input_size, 2),
                                RSub(RMul(RInt(c), RSub(RInt(1), rate_sv)), RInt(1))))
    IN  IF c < 1 THEN Raise("ValueError")
        ELSE IF IsError(power) THEN power
        ELSE Ok(<<c, [sqrt_of |-> c - 1, pow2_exponent |-> power.value]>>)

\* epsilon_hayashi = sqrt(c - 1) * pow(2, input_size / 2 * (c * (1 - rate_sv) - 1)),
\* kept as the argument of sqrt and the exponent of 2
hayashi_parameters(input_size, rate_sv, c_max, c_penalty) ==
    LET c == c_max - c_penalty
        power == Pow2Float(RMul(Rat(input_size, 2),
                                RSub(RMul(RInt(c), RSub(RInt(1), rate_sv)), RInt(1))))
    IN  IF c < 2 THEN Raise("ValueError")
        ELSE IF IsError(power) THEN power
        ELSE Ok(<<c, [sqrt_of |-> c - 1, pow2_exponent |-> power.value]>>)

RatesBt == {Rat(k, Pow2(RateBits)) : k \in 0..Pow2(RateBits)}
RatesSv == {Rat(k, Pow2(RateBits)) : k \in 1..Pow2(RateBits)}

InitSizer ==
    \/ InitCall("dodis_output_size",
                {[num_bits |-> n, rate_bt |-> b, rate_sv |-> r,
                  epsilon_dodis |-> e, q_proof |-> q] :
                    n \in 0..MaxSizerBits, b \in RatesBt, r \in RatesSv,
                    e \in {RInt(0)} \cup {Rat(1, Pow2(k)) : k \in 0..MaxEpsilonBits},
                    q \in BOOLEAN})
    \/ InitCall("hayashi_parameters",
                {[input_size |-> k * InputSizeStep, rate_sv |-> r,
                  c_max |-> m, c_penalty |-> p] :
                    k \in 0..MaxInputSteps, r \in RatesSv,
                    m \in 0..MaxC, p \in 0..MaxC})

DodisOutputSize ==
    Return("dodis_output_size",
           dodis_output_size(args.num_bits, args.rate_bt, args.rate_sv,
                             args.epsilon_dodis, args.q_proof))

HayashiParameters ==
    Return("hayashi_parameters",
           hayashi_parameters(args.input_size, args.rate_sv, args.c_max, args.c_penalty))

NextSizer == DodisOutputSize \/ HayashiParameters

SpecSizer == InitSizer /\ [][NextSizer]_vars

\* C9: dodis_output_size never returns a negative output size, in the classical
\* and in the quantum-proof mode: a negative floored value is rejected with an
\* error, not returned.
C9_NoNegativeSize ==
    (fn = "dodis_output_size" /\ pc = "done" /\ IsOk(ret)) => ret.value >= 0

HayashiDone == fn = "hayashi_parameters" /\ pc = "done"

\* the exponent of 2 in epsilon_hayashi for the arguments of the call
HayashiExponent ==
    RMul(Rat(args.input_size, 2),
         RSub(RMul(RInt(args.c_max - args.c_penalty), RSub(RInt(1), args.rate_sv)),
              RInt(1)))

\* C10 as stated: hayashi_parameters raises for every input with
\* c_max - c_penalty < 2 and for every input with c_max - c_penalty >= 2 returns
\* a pair whose first component is c_max - c_penalty.
C10_Original ==
    HayashiDone =>
        /\ args.c_max - args.c_penalty < 2 => ret = Raise("ValueError")
        /\ args.c_max - args.c_penalty >= 2 =>
               IsOk(ret) /\ ret.value[1] = args.c_max - args.c_penalty

\* C10 (amended): hayashi_parameters raises ValueError for every input with
\* c_max - c_penalty < 2; for c_max - c_penalty >= 2 it returns a pair whose first
\* component is c_max - c_penalty, unless 2^(input_size/2 * (c*(1-rate_sv) - 1))
\* is beyond the double range (exponent >= 1024), where pow raises OverflowError.
C10_HayashiParameters ==
    HayashiDone =>
        /\ args.c_max - args.c_penalty < 2 => ret = Raise("ValueError")
        /\ (args.c_max - args.c_penalty >= 2 /\ RLt(HayashiExponent, RInt(1024))) =>
               IsOk(ret) /\ ret.value[1] = args.c_max - args.c_penalty
        /\ (args.c_max - args.c_penalty >= 2 /\ RLe(RInt(1024), HayashiExponent)) =>
               ret = Raise("OverflowError")

\* the example of the claim: c_max = 1, c_penalty = 2 (c = -1) has raised
C10_Witness ==
    /\ HayashiDone
    /\ args.c_max = 1 /\ args.c_penalty = 2
    /\ ret = Raise("ValueError")

(***************************************************************************)
(* Generator (generator.py).                                               *)
(*                                                                         *)
(* A backend is a record: kind is its class ("IBMQBackend", a subclass of  *)
(* BaseBackend; "BaseBackend", a simulator or a fake backend; "Backend",   *)
(* the class that exists only when HAS_V2_BACKEND holds; "object", any     *)
(* other object), has_configuration tells whether it has the methods       *)
(* configuration() and run() (an "object" may have them or not).  A        *)
(* circuit is identified with its label.  None is the empty tuple and a    *)
(* present optional value x is <<x>>.                                      *)
(***************************************************************************)
None == <<>>
Some(x) == <<x>>

\* one call of a collaborator: its arguments and what it returned
Call(callee, with, returned) ==
    [callee |-> callee, with |-> with, returned |-> returned]

\* the calls of callee in the log
CallsOf(callee) == SelectSeq(calls, LAMBDA c : c.callee = callee)

\* isinstance(backend, BaseBackend), isinstance(backend, Backend),
\* isinstance(backend, IBMQBackend)
IsBaseBackend(backend) == backend.kind \in {"BaseBackend", "IBMQBackend"}
IsBackend(backend) == backend.kind = "Backend"
IsIBMQBackend(backend) == backend.kind = "IBMQBackend"

\* the condition of the "raise ValueError" of sample
BackendRejected(backend, HAS_V2_BACKEND) ==
    ~IsBaseBackend(backend) /\ (HAS_V2_BACKEND /\ ~IsBackend(backend))

\* Generator.__init__
NewGenerator(backend, wsr_generator, save_local) ==
    [backend |-> backend,
     wsr_generator |-> IF wsr_generator = None THEN "generate_wsr"
                       ELSE wsr_generator[1],
     save_local |-> save_local]

\* int(a / b) for ints a >= 0 and b > 0 (the quotient is exact below 2^53)
IntOfQuotient(a, b) == a \div b

\* num_raw_bits // 3 in place of int((num_raw_bits + 2)/3)
NumRawBitsQubitFloor(num_raw_bits) == IntOfQuotient(num_raw_bits, 3)

NumRawBitsQubit(num_raw_bits) == IntOfQuotient(num_raw_bits + 2, 3)

\* int(num_raw_bits_qubit/max_shots) + 1 circuits in the else branch
NumCircuitsAndShotsOneMore(num_raw_bits_qubit, max_shots) ==
    IF num_raw_bits_qubit <= max_shots
    THEN [shots |-> num_raw_bits_qubit, num_circuits |-> 1]
    ELSE LET num_circuits == IntOfQuotient(num_raw_bits_qubit, max_shots) + 1
         IN  [shots |-> IntOfQuotient(num_raw_bits_qubit + num_circuits - 1,
                                      num_circuits),
              num_circuits |-> num_circuits]

NumCircuitsAndShots(num_raw_bits_qubit, max_shots) ==
    IF num_raw_bits_qubit <= max_shots
    THEN [shots |-> num_raw_bits_qubit, num_circuits |-> 1]
    ELSE LET num_circuits ==
                 IntOfQuotient(num_raw_bits_qubit + max_shots - 1, max_shots)
         IN  [shots |-> IntOfQuotient(num_raw_bits_qubit + num_circuits - 1,
                                      num_circuits),
              num_circuits |-> num_circuits]

\* The lists self.wsr_generator(num_bits) may return.  generate_wsr returns
\* random bits: any list of num_bits bits, drawn here from the lists that
\* repeat a block of RandomBlock bits.  The custom generators are
\* lambda num_bits: [1]*num_bits (test_custom_wsr), a generator of
\* alternating bits and a generator that returns one bit too few.
WsrOutputs(wsr_generator, num_bits) ==
    CASE wsr_generator = "generate_wsr" ->
             {[i \in 1..num_bits |-> block[((i - 1) % RandomBlock) + 1]] :
                  block \in [1..RandomBlock -> {0, 1}]}
      [] wsr_generator = "ones" -> {[i \in 1..num_bits |-> 1]}
      [] wsr_generator = "alternate" -> {[i \in 1..num_bits |-> (i - 1) % 2]}
      [] wsr_generator = "short" -> {[i \in 1..(num_bits - 1) |-> 1]}

\* _get_wsr with initial_wsr[3*i+1] taken twice
_get_wsr_repeated(num_circuits, initial_wsr) ==
    IF 3 * num_circuits > Len(initial_wsr)
    THEN Raise("IndexError")
    ELSE Ok([i \in 1..num_circuits |->
                <<initial_wsr[3 * (i - 1) + 1], initial_wsr[3 * (i - 1) + 2],
                  initial_wsr[3 * (i - 1) + 2]>>])

\* _get_wsr: int() of a bit is the bit; an index past the end raises IndexError
_get_wsr(num_circuits, initial_wsr) ==
    IF 3 * num_circuits > Len(initial_wsr)
    THEN Raise("IndexError")
    ELSE Ok([i \in 1..num_circuits |->
                <<initial_wsr[3 * (i - 1) + 1], initial_wsr[3 * (i - 1) + 2],
                  initial_wsr[3 * (i - 1) + 3]>>])

\* _generate_all_circuits: labels.index raises ValueError for a wsr_set that
\* is not one of the eight labels
_generate_all_circuits(num_circuits, wsr_bits) ==
    IF \E i \in 1..Len(wsr_bits) : wsr_bits[i] \notin Vec3
    THEN Raise("ValueError")
    ELSE Ok(wsr_bits)

\* _run_circuits: the callee and the class of the job it returns
RunCallee(backend) ==
    IF IsIBMQBackend(backend) THEN "job_manager.run" ELSE "backend.run"

RunJob(backend, job_id) ==
    [class |-> IF IsIBMQBackend(backend) THEN "ManagedJobSet" ELSE "BaseJob",
     id |-> job_id]

\* pickle.dump writes the items of the dict in insertion order;
\* pickle.load builds the dict from them again
PickleDump(keys, dict) == [k \in 1..Len(keys) |-> <<keys[k], dict[keys[k]]>>]
PickleLoad(pickled) ==
    [key \in {pickled[k][1] : k \in 1..Len(pickled)} |->
        LET k == CHOOSE k \in 1..Len(pickled) : pickled[k][1] = key
        IN  pickled[k][2]]

\* os.path.exists and the effect of open(file_name, 'wb') + dump
Exists(fs, file_name) == \E f \in fs : f.name = file_name
WriteFile(fs, file_name, data) ==
    {f \in fs : f.name # file_name} \cup {[name |-> file_name, data |-> data]}
ReadFile(fs, file_name) == (CHOOSE f \in fs : f.name = file_name).data

\* _save_local: the file name, "<_file_prefix>_<backend>_<num_raw_bits>_<id>"
FileName(backend, num_raw_bits, id) ==
    <<"qiskit_rng", backend.name, num_raw_bits, id>>

\* _save_local: the names the while loop can end with, the first four
\* characters of a uuid4 (a value of 0..MaxUuid) that name no existing file
SaveLocalNames(fs, backend, num_raw_bits) ==
    {FileName(backend, num_raw_bits, id) : id \in 0..MaxUuid} \
        {f.name : f \in fs}

\* _save_local: the pickled data, with the job type "job" for every job
SaveLocalDataJobOnly(wsr_bits, job, shots) ==
    PickleDump(<<"wsr", "shots", "job_id", "job_type">>,
               [wsr |-> wsr_bits, shots |-> shots, job_id |-> job.id,
                job_type |-> "job"])

\* _save_local: the pickled data
SaveLocalData(wsr_bits, job, shots) ==
    PickleDump(<<"wsr", "shots", "job_id", "job_type">>,
               [wsr |-> wsr_bits, shots |-> shots, job_id |-> job.id,
                job_type |-> IF job.class = "ManagedJobSet"
                             THEN "jobset" ELSE "job"])

\* GeneratorJob.__init__ (generator_job.py)
GeneratorJob(initial_wsr, wsr, job, shots, saved_fn) ==
    [initial_wsr |-> initial_wsr, wsr |-> wsr, job |-> job, shots |-> shots,
     saved_fn |-> saved_fn, raw_bits_list |-> None, formatted_wsr |-> None]

BackendKinds ==
    {[kind |-> "IBMQBackend", name |-> "ibmq_valencia", has_configuration |-> TRUE],
     [kind |-> "BaseBackend", name |-> "fake_valencia", has_configuration |-> TRUE],
     [kind |-> "Backend", name |-> "backend_v2", has_configuration |-> TRUE],
     [kind |-> "object", name |-> "duck", has_configuration |-> TRUE],
     [kind |-> "object", name |-> "object", has_configuration |-> FALSE]}

Backends ==
    {[kind |-> b.kind, name |-> b.name, has_configuration |-> b.has_configuration,
      max_shots |-> s, max_experiments |-> e] :
         b \in BackendKinds, s \in 1..MaxBackendShots, e \in 1..MaxExperiments}

WsrGenerators == {None, Some("ones"), Some("alternate"), Some("short")}

JobIds == {"job-a", "job-b"}

\* The state before generator.sample(num_raw_bits): the generator has been
\* constructed, and the directory may hold files of earlier samplings with
\* the same backend and the same num_raw_bits.  An instance of Backend
\* exists only when the class could be imported.
InitSample ==
    /\ fn = "sample"
    /\ \E backend \in Backends, wsr_generator \in WsrGenerators,
          save_local \in BOOLEAN, v2 \in BOOLEAN, n \in 1..MaxRawBits :
          /\ IsBackend(backend) => v2
          /\ args = [self |-> NewGenerator(backend, wsr_generator, save_local),
                     HAS_V2_BACKEND |-> v2,
                     num_raw_bits |-> n]
          /\ \E ids \in SUBSET (0..MaxUuid) :
                files = {[name |-> FileName(backend, n, id),
                          data |-> SaveLocalData(<<<<0, 0, 0>>>>,
                                                 RunJob(backend, "job-0"), 1)] :
                            id \in ids}
    /\ pc = "call"
    /\ locals = NoLocals
    /\ ret = NoValue
    /\ calls = <<>>

\* generator.sample(num_raw_bits), the whole call
Sample ==
    /\ fn = "sample"
    /\ pc = "call"
    /\ pc' = "done"
    /\ UNCHANGED <<fn, args>>
    /\ LET self == args.self
           num_raw_bits == args.num_raw_bits
       IN  IF BackendRejected(self.backend, args.HAS_V2_BACKEND)
           THEN /\ ret' = Raise("ValueError")
                /\ UNCHANGED <<locals, files, calls>>
           ELSE IF ~self.backend.has_configuration
           THEN /\ ret' = Raise("AttributeError")
                /\ UNCHANGED <<locals, files, calls>>
           ELSE
           LET max_shots == self.backend.max_shots
               shape == NumCircuitsAndShots(NumRawBitsQubit(num_raw_bits), max_shots)
               num_circuits == shape.num_circuits
               shots == shape.shots
           IN
           /\ locals' = [max_shots |-> max_shots, num_circuits |-> num_circuits,
                         shots |-> shots]
           /\ \E initial_wsr \in WsrOutputs(self.wsr_generator, num_circuits * 3) :
              LET generated == Append(calls, Call("wsr_generator", <<num_circuits * 3>>,
                                             initial_wsr))
                  wsr_bits == _get_wsr(num_circuits, initial_wsr)
                  circuits == _generate_all_circuits(num_circuits, wsr_bits.value)
              IN  IF IsError(wsr_bits)
                  THEN /\ ret' = wsr_bits
                       /\ calls' = generated
                       /\ UNCHANGED files
                  ELSE IF IsError(circuits)
                  THEN /\ ret' = circuits
                       /\ calls' = generated
                       /\ UNCHANGED files
                  ELSE
                  \E job_id \in JobIds :
                  LET job == RunJob(self.backend, job_id)
                      submitted == Append(generated,
                                          Call(RunCallee(self.backend),
                                               <<circuits.value, shots>>, job))
                  IN  /\ calls' = submitted
                      /\ IF self.save_local /\ IsIBMQBackend(self.backend)
                         THEN \E file_name \in SaveLocalNames(files, self.backend,
                                                             num_raw_bits) :
                                 /\ files' = WriteFile(files, file_name,
                                                 SaveLocalData(wsr_bits.value, job, shots))
                                 /\ ret' = Ok(GeneratorJob(initial_wsr, wsr_bits.value,
                                                           job, shots, Some(file_name)))
                         ELSE /\ UNCHANGED files
                              /\ ret' = Ok(GeneratorJob(initial_wsr, wsr_bits.value,
                                                        job, shots, None))

NextSample == Sample

SpecSample == InitSample /\ [][NextSample]_vars

SampleDone == fn = "sample" /\ pc = "done"
SampleShaped == SampleDone /\ locals # NoLocals

\* ceil(a / b) for a >= 0 and b > 0, by its definition
Ceil(a, b) == CHOOSE k \in 0..a : k * b >= a /\ (k - 1) * b < a

SampleSubmitted == SampleDone /\ IsOk(ret)

\* C13: for num_raw_bits >= 1 and max_shots >= 1, sample chooses num_circuits
\* and shots with 3 * num_circuits * shots >= num_raw_bits, and these are
\* the number of circuits and the shots of the job it submits and returns.
C13_EnoughRawBits ==
    /\ SampleShaped =>
           3 * locals.num_circuits * locals.shots >= args.num_raw_bits
    /\ SampleSubmitted =>
           /\ Len(ret.value.wsr) = locals.num_circuits
           /\ ret.value.shots = locals.shots
           /\ LET run == calls[Len(calls)]
              IN  /\ Len(run.with[1]) = locals.num_circuits
                  /\ run.with[2] = locals.shots

\* num_raw_bits = 7 on a backend with max_shots = 2: two circuits of two
\* shots give 12 raw bits
C13_Witness ==
    /\ SampleSubmitted
    /\ args.num_raw_bits = 7 /\ locals.max_shots = 2
    /\ locals.num_circuits = 2 /\ locals.shots = 2

\* C16: whenever the backend is neither a BaseBackend nor a Backend instance,
\* sample raises ValueError before generating any WSR or submitting any job,
\* whether HAS_V2_BACKEND is true or false.
C16_InvalidBackendRejected ==
    (SampleDone /\ ~IsBaseBackend(args.self.backend)
                /\ ~IsBackend(args.self.backend)) =>
        (ret = Raise("ValueError") /\ calls = <<>>)

CustomWsr == fn = "sample" /\ args.self.wsr_generator # "generate_wsr"

\* C17: with a custom wsr_generator, sample calls it exactly once, with
\* num_bits = 3 * num_circuits; the initial_wsr of the returned GeneratorJob
\* is the list that call returned, and wsr[i] of the job is
\* [initial_wsr[3i], initial_wsr[3i+1], initial_wsr[3i+2]] for every circuit i.
C17_CustomWsr ==
    /\ (CustomWsr /\ SampleShaped) =>
           /\ Len(CallsOf("wsr_generator")) = 1
           /\ CallsOf("wsr_generator")[1].with = <<3 * locals.num_circuits>>
    /\ (CustomWsr /\ SampleSubmitted) =>
           LET job == ret.value
               initial_wsr == job.initial_wsr
           IN  /\ initial_wsr = CallsOf("wsr_generator")[1].returned
               /\ Len(job.wsr) = locals.num_circuits
               /\ \A i \in 0..(locals.num_circuits - 1) :
                      job.wsr[i + 1] = <<initial_wsr[3 * i + 1],
                                         initial_wsr[3 * i + 2],
                                         initial_wsr[3 * i + 3]>>

\* two circuits from the alternating generator: [0, 1, 0] and [1, 0, 1]
C17_Witness ==
    /\ CustomWsr /\ SampleSubmitted
    /\ ret.value.initial_wsr = <<0, 1, 0, 1, 0, 1>>
    /\ ret.value.wsr = <<<<0, 1, 0>>, <<1, 0, 1>>>>

\* C20: sample chooses shots with 1 <= shots <= max_shots; num_circuits is 1
\* exactly when ceil(num_raw_bits / 3) <= max_shots and is
\* ceil(ceil(num_raw_bits / 3) / max_shots) otherwise, whatever
\* max_experiments is: a job is submitted also when num_circuits exceeds it.
C20_ShotsAndCircuits ==
    SampleShaped =>
        LET bits_per_qubit == Ceil(args.num_raw_bits, 3)
            max_shots == args.self.backend.max_shots
        IN  /\ 1 <= locals.shots /\ locals.shots <= max_shots
            /\ locals.num_circuits = 1 <=> bits_per_qubit <= max_shots
            /\ bits_per_qubit > max_shots =>
                   locals.num_circuits = Ceil(bits_per_qubit, max_shots)
            /\ (~IsError(ret)) => Len(ret.value.wsr) = locals.num_circuits

\* three circuits are submitted to a backend with max_experiments = 2
C20_Witness ==
    /\ SampleSubmitted
    /\ locals.num_circuits = 3
    /\ args.self.backend.max_experiments = 2
    /\ Len(calls[Len(calls)].with[1]) = 3

(***************************************************************************)
(* GeneratorJob (generator_job.py) with Generator._save_local and          *)
(* Generator.recover (generator.py): the life of a sampling after sample   *)
(* has returned its GeneratorJob (locals.job).  _save_local writes the     *)
(* context file and its name becomes job.saved_fn, recover builds a second *)
(* GeneratorJob (locals.r_job) from the file, block_until_ready is called  *)
(* on either object.  pc names the last operation and ret is its outcome;  *)
(* locals.target is the object of the last block_until_ready.  A memory    *)
(* string such as '101' is the tuple of its characters.  None and the      *)
(* empty list are both the empty tuple: the code only tests whether        *)
(* formatted_wsr is falsy.                                                 *)
(***************************************************************************)
\* the concatenation of the lists of a list
RECURSIVE Flatten(_)
Flatten(lists) ==
    IF lists = <<>> THEN <<>> ELSE Head(lists) \o Flatten(Tail(lists))

\* int(mem) for a character of a memory string
IntOfDigit(mem) == CASE mem = "0" -> 0 [] mem = "1" -> 1

\* shot_list.reverse()
Reverse(shot_list) ==
    [k \in 1..Len(shot_list) |-> shot_list[Len(shot_list) + 1 - k]]

\* shot_list = [int(mem) for mem in shot_mem]; shot_list.reverse()
ShotList(shot_mem) == Reverse([k \in 1..Len(shot_mem) |-> IntOfDigit(shot_mem[k])])

\* _ibmq_result_transform: memory[i] is result.get_memory(i)
_ibmq_result_transform(memory) ==
    Flatten([i \in 1..Len(memory) |->
                [j \in 1..Len(memory[i]) |-> ShotList(memory[i][j])]])

\* _format_wsr with the two loops of the comprehension exchanged
_format_wsr_shots_first(self) ==
    IF self.formatted_wsr = <<>>
    THEN Flatten([j \in 1..self.shots |-> [i \in 1..Len(self.wsr) |-> self.wsr[i]]])
    ELSE self.formatted_wsr

\* _format_wsr: the new value of self.formatted_wsr
_format_wsr(self) ==
    IF self.formatted_wsr = <<>>
    THEN Flatten([i \in 1..Len(self.wsr) |-> [j \in 1..self.shots |-> self.wsr[i]]])
    ELSE self.formatted_wsr

\* os.remove that leaves the file in place
RemoveNothing(fs, file_name) == fs

\* the directory after a successful os.remove(file_name)
Remove(fs, file_name) == {f \in fs : f.name # file_name}

\* the job the provider returns for a saved job id and job type
RetrieveCallee(job_type) ==
    IF job_type = "jobset" THEN "retrieve_job_set" ELSE "retrieve_job"
RetrieveJob(job_type, job_id) ==
    [class |-> IF job_type = "jobset" THEN "ManagedJobSet" ELSE "BaseJob",
     id |-> job_id]

\* examples of the docstring of _get_wsr and of the comment of
\* _ibmq_result_transform
JobLabels == {<<1, 0, 0>>, <<0, 1, 1>>}
MemoryCycle == <<(<<"1", "0", "1">>), (<<"1", "1", "0">>), (<<"0", "0", "1">>)>>

\* the memory of a result: circuit i holds `entries` strings, taken in
\* turn from MemoryCycle from position starts[i] on
Memory(starts, entries) ==
    [i \in 1..Len(starts) |->
        [j \in 1..entries |-> MemoryCycle[((starts[i] + j) % Len(MemoryCycle)) + 1]]]

\* The state after sample has returned a job of num_circuits circuits that
\* was not saved.  Waiting for the result of the job either raises or gives
\* a result with one memory list for each circuit, of `shots` entries (or,
\* for a result that does not match the job, of shots + 1 entries).  The
\* directory may hold the file of an earlier sampling.
InitJob ==
    /\ fn = "GeneratorJob"
    /\ \E backend \in Backends, num_circuits \in 1..MaxJobCircuits,
          shots \in 1..MaxJobShots :
          /\ backend.kind \in {"IBMQBackend", "BaseBackend"}
          /\ backend.max_shots = 1 /\ backend.max_experiments = 1
          /\ \E wsr \in [1..num_circuits -> JobLabels],
                starts \in [1..num_circuits -> 0..(Len(MemoryCycle) - 1)],
                entries \in {shots, shots + 1}, failed \in BOOLEAN,
                earlier \in SUBSET {0} :
                /\ failed => (entries = shots /\ \A i \in 1..num_circuits : starts[i] = 0)
                /\ args = [self |-> NewGenerator(backend, None, FALSE),
                           num_raw_bits |-> 3 * num_circuits * shots,
                           result |-> IF failed THEN Raise("JobError")
                                      ELSE Ok(Memory(starts, entries))]
                /\ locals = [job |-> GeneratorJob(Flatten(wsr), wsr,
                                                  RunJob(backend, "job-a"),
                                                  shots, None),
                             r_job |-> None,
                             target |-> "none",
                             ready_calls |-> 0]
                /\ files = {[name |-> FileName(backend, 3 * num_circuits * shots, id),
                             data |-> SaveLocalData(<<<<0, 0, 0>>>>,
                                                    RunJob(backend, "job-0"), 1)] :
                               id \in earlier}
    /\ pc = "sampled"
    /\ ret = NoValue
    /\ calls = <<>>

\* saved_fn = generator._save_local(num_raw_bits, job.wsr, job.job, job.shots)
\* and job.saved_fn = saved_fn (sample passes saved_fn to the constructor,
\* test_save_local assigns it)
_save_local ==
    /\ fn = "GeneratorJob"
    /\ locals.job.saved_fn = None
    /\ \E file_name \in SaveLocalNames(files, args.self.backend, args.num_raw_bits) :
          /\ files' = WriteFile(files, file_name,
                                SaveLocalData(locals.job.wsr, locals.job.job,
                                              locals.job.shots))
          /\ locals' = [locals EXCEPT !.job.saved_fn = Some(file_name)]
          /\ ret' = Ok(file_name)
    /\ pc' = "_save_local"
    /\ UNCHANGED <<fn, args, calls>>

\* r_job = Generator.recover(saved_fn, provider)
recover ==
    /\ fn = "GeneratorJob"
    /\ locals.job.saved_fn # None
    /\ locals.r_job = None
    /\ pc' = "recover"
    /\ LET file_name == locals.job.saved_fn[1]
       IN  IF ~Exists(files, file_name)
           THEN /\ ret' = Raise("FileNotFoundError")
                /\ UNCHANGED <<locals, calls>>
           ELSE LET data == PickleLoad(ReadFile(files, file_name))
                    job == RetrieveJob(data["job_type"], data["job_id"])
                    r_job == GeneratorJob(<<>>, data["wsr"], job, data["shots"],
                                          Some(file_name))
                IN  /\ calls' = Append(calls, Call(RetrieveCallee(data["job_type"]),
                                                   <<data["job_id"]>>, job))
                    /\ locals' = [locals EXCEPT !.r_job = Some(r_job)]
                    /\ ret' = Ok(r_job)
    /\ UNCHANGED <<fn, args, files>>

\* self.block_until_ready(), where self is locals.job or the recovered
\* locals.r_job.  os.remove of an existing file succeeds or is
\* refused by the file system; both a refusal and a missing file are logged
\* and ignored.
BlockUntilReady(target) ==
    LET self == IF target = "job" THEN locals.job ELSE locals.r_job[1]
    IN
    /\ fn = "GeneratorJob"
    /\ locals.ready_calls < MaxReadyCalls
    /\ pc' = "block_until_ready"
    /\ IF IsError(args.result)
       THEN /\ ret' = args.result
            /\ locals' = [locals EXCEPT !.target = target, !.ready_calls = @ + 1]
            /\ UNCHANGED <<files, calls>>
       ELSE LET transformed ==
                    [self EXCEPT !.raw_bits_list = _ibmq_result_transform(args.result.value)]
                formatted ==
                    [transformed EXCEPT !.formatted_wsr = _format_wsr(transformed)]
            IN  /\ locals' = IF target = "job"
                              THEN [locals EXCEPT !.job = formatted,
                                                  !.target = target,
                                                  !.ready_calls = @ + 1]
                              ELSE [locals EXCEPT !.r_job = Some(formatted),
                                                  !.target = target,
                                                  !.ready_calls = @ + 1]
                /\ ret' = Ok([wsr |-> formatted.formatted_wsr,
                              raw_bits_list |-> formatted.raw_bits_list])
                /\ IF self.saved_fn = None
                   THEN UNCHANGED <<files, calls>>
                   ELSE LET file_name == self.saved_fn[1]
                        IN  IF ~Exists(files, file_name)
                            THEN /\ calls' = Append(calls, Call("os.remove", <<file_name>>,
                                                                "FileNotFoundError"))
                                 /\ UNCHANGED files
                            ELSE \/ /\ calls' = Append(calls, Call("os.remove", <<file_name>>,
                                                                   "removed"))
                                    /\ files' = Remove(files, file_name)
                                 \/ /\ calls' = Append(calls, Call("os.remove", <<file_name>>,
                                                                   "PermissionError"))
                                    /\ UNCHANGED files
    /\ UNCHANGED <<fn, args>>

\* job.block_until_ready()
block_until_ready == BlockUntilReady("job")

\* r_job.block_until_ready()
block_until_ready_recovered ==
    /\ fn = "GeneratorJob"
    /\ locals.r_job # None
    /\ BlockUntilReady("r_job")

NextJob == _save_local \/ recover \/ block_until_ready \/ block_until_ready_recovered

SpecJob == InitJob /\ [][NextJob]_vars

\* the GeneratorJob of the last block_until_ready
Target == IF locals.target = "job" THEN locals.job ELSE locals.r_job[1]

ReadyCalled == fn = "GeneratorJob" /\ pc = "block_until_ready"

\* some os.remove of file_name has succeeded
Removed(file_name) ==
    \E k \in 1..Len(calls) :
        calls[k] = Call("os.remove", <<file_name>>, "removed")

Recovered == fn = "GeneratorJob" /\ pc = "recover"

\* C15: recover on the name of the file that _save_local(num_raw_bits,
\* wsr_bits, job, shots) wrote, while the file exists, yields a GeneratorJob
\* with wsr = wsr_bits, shots = shots and saved_fn = the file name, whose job
\* was retrieved by the saved job id: by retrieve_job_set for a
\* ManagedJobSet and by retrieve_job for any other job.
C15_SaveRecoverRoundTrip ==
    Recovered =>
        LET saved == locals.job
        IN  IF Exists(files, saved.saved_fn[1])
            THEN /\ IsOk(ret)
                 /\ locals.r_job = Some(ret.value)
                 /\ ret.value.wsr = saved.wsr
                 /\ ret.value.shots = saved.shots
                 /\ ret.value.saved_fn = saved.saved_fn
                 /\ ret.value.initial_wsr = <<>>
                 /\ calls[Len(calls)] =
                        Call(IF saved.job.class = "ManagedJobSet"
                             THEN "retrieve_job_set" ELSE "retrieve_job",
                             <<saved.job.id>>, ret.value.job)
                 /\ ret.value.job.id = saved.job.id
                 /\ ret.value.job.class = saved.job.class
            ELSE ret = Raise("FileNotFoundError")

\* a job set of two circuits is recovered
C15_Witness ==
    /\ Recovered /\ IsOk(ret)
    /\ locals.job.job.class = "ManagedJobSet"
    /\ calls[Len(calls)].callee = "retrieve_job_set"
    /\ ret.value.wsr = <<<<1, 0, 0>>, <<0, 1, 1>>>>
    /\ ret.value.shots = 2

\* every circuit's result holds exactly `shots` memory entries, in circuit order
ResultMatches(self) ==
    /\ IsOk(args.result)
    /\ Len(args.result.value) = Len(self.wsr)
    /\ \A i \in 1..Len(self.wsr) : Len(args.result.value[i]) = self.shots

\* C18: after block_until_ready on a job whose result holds exactly `shots`
\* memory entries for every circuit, formatted_wsr and raw_bits_list both
\* have len(wsr) * shots elements, formatted_wsr[k] is wsr[k div shots] and
\* raw_bits_list[k] is the memory string of shot k mod shots of circuit
\* k div shots, as ints, last character first; a formatted_wsr that has
\* been set is left unchanged by every later call.
C18_Aligned ==
    /\ []((ReadyCalled /\ IsOk(ret) /\ ResultMatches(Target)) =>
            LET self == Target
                shots == self.shots
                size == Len(self.wsr) * shots
            IN  /\ Len(self.formatted_wsr) = size
                /\ Len(self.raw_bits_list) = size
                /\ ret.value = [wsr |-> self.formatted_wsr,
                                raw_bits_list |-> self.raw_bits_list]
                /\ \A k \in 0..(size - 1) :
                       LET shot_mem == args.result.value[(k \div shots) + 1][(k % shots) + 1]
                       IN  /\ self.formatted_wsr[k + 1] = self.wsr[(k \div shots) + 1]
                           /\ self.raw_bits_list[k + 1] =
                                  <<IntOfDigit(shot_mem[3]), IntOfDigit(shot_mem[2]),
                                    IntOfDigit(shot_mem[1])>>)
    /\ [][fn = "GeneratorJob" =>
            /\ locals.job.formatted_wsr # <<>> =>
                   locals'.job.formatted_wsr = locals.job.formatted_wsr
            /\ (locals.r_job # None /\ locals.r_job[1].formatted_wsr # <<>>) =>
                   locals'.r_job[1].formatted_wsr = locals.r_job[1].formatted_wsr]_vars

\* the second job.block_until_ready() of a job of two circuits and two shots
C18_Witness ==
    /\ ReadyCalled /\ IsOk(ret)
    /\ locals.target = "job" /\ locals.ready_calls = 2 /\ locals.r_job = None
    /\ locals.job.wsr = <<<<1, 0, 0>>, <<0, 1, 1>>>> /\ locals.job.shots = 2
    /\ locals.job.formatted_wsr =
           <<<<1, 0, 0>>, <<1, 0, 0>>, <<0, 1, 1>>, <<0, 1, 1>>>>
    /\ locals.job.raw_bits_list =
           <<<<0, 1, 1>>, <<1, 0, 0>>, <<0, 1, 1>>, <<1, 0, 0>>>>

(***************************************************************************)
(* Concurrent runs of Generator._save_local (generator.py): NumSamplings   *)
(* samplings with the same backend and the same num_raw_bits save their    *)
(* context in the same directory.  The code takes no lock, so the steps of *)
(* the runs interleave at every access to the file system: the choice of   *)
(* a name, each os.path.exists, open(file_name, 'wb'), which creates the   *)
(* file or truncates an existing one, and pickle.dump.  pc, locals and ret *)
(* hold one entry for each run.                                            *)
(***************************************************************************)
Runs == 1..NumSamplings

\* the job ids of the samplings, one for each run
SamplingJobIds == <<"job-a", "job-b", "job-c", "job-d">>

\* the arguments of the _save_local of run p
SavedBy(p) == args.samplings[p]

InitSaveLocal ==
    /\ fn = "_save_local"
    /\ \E backend \in Backends, num_raw_bits \in 1..2,
          wsr \in [Runs -> JobLabels], earlier \in SUBSET (0..MaxUuid) :
          /\ backend.kind \in {"IBMQBackend", "BaseBackend"}
          /\ backend.max_shots = 1 /\ backend.max_experiments = 1
          /\ args = [self |-> NewGenerator(backend, None, TRUE),
                     num_raw_bits |-> num_raw_bits,
                     samplings |-> [p \in Runs |->
                                       [wsr_bits |-> <<wsr[p]>>,
                                        job |-> RunJob(backend, SamplingJobIds[p]),
                                        shots |-> 1]]]
          /\ files = {[name |-> FileName(backend, num_raw_bits, id),
                       data |-> SaveLocalData(<<<<0, 0, 0>>>>,
                                              RunJob(backend, "job-0"), 1)] :
                         id \in earlier}
    /\ pc = [p \in Runs |-> "call"]
    /\ locals = [p \in Runs |-> NoLocals]
    /\ ret = [p \in Runs |-> NoValue]
    /\ calls = <<>>

\* file_name = file_prefix + str(uuid.uuid4())[:4]
SaveLocalChoose(p) ==
    /\ fn = "_save_local"
    /\ pc[p] = "call"
    /\ \E id \in 0..MaxUuid :
          locals' = [locals EXCEPT ![p] =
                        [file_name |-> FileName(args.self.backend,
                                                args.num_raw_bits, id)]]
    /\ pc' = [pc EXCEPT ![p] = "exists"]
    /\ UNCHANGED <<fn, args, ret, files, calls>>

\* while os.path.exists(file_name): file_name = file_prefix + str(uuid.uuid4())[:4]
SaveLocalExists(p) ==
    /\ fn = "_save_local"
    /\ pc[p] = "exists"
    /\ IF Exists(files, locals[p].file_name)
       THEN /\ \E id \in 0..MaxUuid :
                  locals' = [locals EXCEPT ![p] =
                                [file_name |-> FileName(args.self.backend,
                                                        args.num_raw_bits, id)]]
            /\ UNCHANGED pc
       ELSE /\ pc' = [pc EXCEPT ![p] = "open"]
            /\ UNCHANGED locals
    /\ UNCHANGED <<fn, args, ret, files, calls>>

\* data = {...}; open(file_name, 'wb'): the file is created empty, or an
\* existing file is truncated
SaveLocalOpen(p) ==
    /\ fn = "_save_local"
    /\ pc[p] = "open"
    /\ calls' = Append(calls, Call("open", <<locals[p].file_name, p>>,
                                   IF Exists(files, locals[p].file_name)
                                   THEN "truncated" ELSE "created"))
    /\ files' = WriteFile(files, locals[p].file_name, <<>>)
    /\ pc' = [pc EXCEPT ![p] = "dump"]
    /\ UNCHANGED <<fn, args, locals, ret>>

\* pickle.dump(data, file), the file is closed; return file_name
SaveLocalDump(p) ==
    /\ fn = "_save_local"
    /\ pc[p] = "dump"
    /\ files' = WriteFile(files, locals[p].file_name,
                          SaveLocalData(SavedBy(p).wsr_bits, SavedBy(p).job,
                                        SavedBy(p).shots))
    /\ ret' = [ret EXCEPT ![p] = Ok(locals[p].file_name)]
    /\ pc' = [pc EXCEPT ![p] = "done"]
    /\ UNCHANGED <<fn, args, locals, calls>>

NextSaveLocal ==
    \E p \in Runs :
        SaveLocalChoose(p) \/ SaveLocalExists(p) \/ SaveLocalOpen(p) \/ SaveLocalDump(p)

SpecSaveLocal == InitSaveLocal /\ [][NextSaveLocal]_vars

\* C21: _save_local never overwrites an existing file, also when samplings
\* with the same backend name and num_raw_bits run it concurrently: no
\* open truncates a file that exists, two runs that have returned have
\* returned different names, and the file of a run that has returned holds
\* the context of that run.
C21_NeverOverwrites ==
    fn = "_save_local" =>
        /\ \A k \in 1..Len(calls) :
              calls[k].callee = "open" => calls[k].returned = "created"
        /\ \A p, q \in Runs :
              (p # q /\ pc[p] = "done" /\ pc[q] = "done") =>
                  ret[p].value # ret[q].value
        /\ (\A p \in Runs : pc[p] = "done") =>
              \A p \in Runs :
                  /\ Exists(files, ret[p].value)
                  /\ ReadFile(files, ret[p].value) =
                         SaveLocalData(SavedBy(p).wsr_bits, SavedBy(p).job,
                                       SavedBy(p).shots)

====
